---- MODULE Spec2Model ----
(***************************************************************************)
(* State-machine model of the GRN diagram editor of src/gui.py: the scene  *)
(* (GraphScene), its items (NodeItem, EdgeItem), the edge-drafting         *)
(* gesture, and the MainWindow handlers that add, delete, import, export   *)
(* and assemble the graph.                                                 *)
(*                                                                         *)
(* Python objects are modelled as entries of two heaps, `nodes` and        *)
(* `edges`; an object's identity is its index.  An object removed from the *)
(* scene stays on its heap, as it stays alive in Python while something    *)
(* still refers to it.  Floating point attributes (Kd, n, deg_rate) are    *)
(* counted in tenths.                                                      *)
(***************************************************************************)
EXTENDS Integers, Sequences, FiniteSets, TLC

\* ------------------------------------------------------------------------
\* Bounds of the model
\* ------------------------------------------------------------------------
\* NodeItem objects constructed over a run
MaxNodeObjs == 2
\* EdgeItem objects constructed over a run
MaxEdgeObjs == 2

\* ------------------------------------------------------------------------
\* Program constants
\* ------------------------------------------------------------------------
None == 0
SNAP_DISTANCE == 40
Diameter == 50
node_spacing == 60

\* Scene points the pointer visits while drafting.  With input nodes at
\* (50,50) and (50,110), i.e. centers (75,75) and (75,135):
\*   (75,105)  30 from both centers (a tie)
\*   (75,100)  25 from the first, 35 from the second
\*   (75,115)  exactly 40 from the first, 20 from the second
\*   (115,75)  exactly 40 from the first, out of reach of the second
\*   (225,75)  the center of the first gene node
\*   (600,600) far from everything
PointerPoints ==
    { <<75, 105>>, <<75, 100>>, <<75, 115>>, <<115, 75>>, <<225, 75>>,
      <<600, 600>> }

\* Positions a node is dragged to
DragPositions == { <<50, 110>>, <<50, 80>> }

VARIABLES
    nodes,            \* heap of NodeItem objects
    edges,            \* heap of EdgeItem objects
    items,            \* QGraphicsScene.items(): the scene, topmost item first
    selected,         \* QGraphicsScene.selectedItems()
    edge_mode,        \* GraphScene.edge_mode
    temp_edge,        \* GraphScene.temp_edge
    source_node,      \* GraphScene.source_node
    pinned_node,      \* GraphScene.pinned_node
    input_counter,    \* MainWindow.input_counter
    output_counter,   \* MainWindow.output_counter
    gene_counter,     \* MainWindow.gene_counter
    input_position,   \* MainWindow.input_position
    gene_position,    \* MainWindow.gene_position
    output_position,  \* MainWindow.output_position
    node_inputs,      \* MainWindow.node_inputs: label -> NodeItem
    file,             \* the GraphML file export_nx_graph wrote last
    my_grn,           \* what build_grn handed to the plotter last
    gesture           \* history: the drafting gesture under way, for the
                      \* properties that span press, move and release

vars ==
    << nodes, edges, items, selected, edge_mode, temp_edge, source_node,
       pinned_node, input_counter, output_counter, gene_counter,
       input_position, gene_position, output_position, node_inputs,
       file, my_grn, gesture >>

sceneVars == << edge_mode, temp_edge, source_node, pinned_node >>
counterVars ==
    << input_counter, output_counter, gene_counter, input_position,
       gene_position, output_position >>
outVars == << file, my_grn >>

\* No drafting gesture is being followed
NoGesture == [stage |-> "none"]
\* No file written, no network assembled yet
NoFile == [written |-> FALSE]
NoGrn == [built |-> FALSE]

\* ------------------------------------------------------------------------
\* Items and the scene
\* ------------------------------------------------------------------------
NodeRef(n) == [k |-> "node", id |-> n]
\* itemAt() finding no item
NoItem == [k |-> "none", id |-> None]
EdgeRef(e) == [k |-> "edge", id |-> e]

SeqToSet(s) == { s[i] : i \in 1..Len(s) }

SceneItems == SeqToSet(items)
SceneNodes == { it.id : it \in { r \in SceneItems : r.k = "node" } }
SceneEdges == { it.id : it \in { r \in SceneItems : r.k = "edge" } }

\* dict.get(key, default)
Get(d, key, default) == IF key \in DOMAIN d THEN d[key] ELSE default

\* QGraphicsScene.addItem: a new top-level item is stacked above the older
\* ones, and items() lists the topmost item first.
addItem(its, it) == IF it \in SeqToSet(its) THEN its ELSE <<it>> \o its

\* QGraphicsScene.removeItem: no effect on an item that is not in the scene.
removeItem(its, it) == SelectSeq(its, LAMBDA x : x # it)

removeItems(its, S) == SelectSeq(its, LAMBDA x : x \notin S)

\* ------------------------------------------------------------------------
\* NodeItem
\* ------------------------------------------------------------------------
NodeItem(x, y, node_data) ==
    [ x |-> x, y |-> y, node_data |-> node_data, edges |-> <<>>,
      pen |-> "black" ]

\* NodeItem.add_edge
add_edge(node, e) ==
    IF e \in SeqToSet(node.edges) THEN node
    ELSE [node EXCEPT !.edges = Append(@, e)]

\* NodeItem.remove_edge
remove_edge(node, e) ==
    [node EXCEPT !.edges = SelectSeq(@, LAMBDA x : x # e)]

CenterX(node) == node.x + Diameter \div 2
CenterY(node) == node.y + Diameter \div 2

\* ------------------------------------------------------------------------
\* EdgeItem
\* ------------------------------------------------------------------------
Abs(a) == IF a < 0 THEN -a ELSE a

RECURSIVE GCD(_, _)
GCD(a, b) == IF b = 0 THEN a ELSE GCD(b, a % b)

\* math.atan2(dy, dx), kept exact: the angle is represented by the reduced
\* direction vector it points along; atan2(0, 0) is 0, the direction (1, 0).
Atan2(dy, dx) ==
    IF dx = 0 /\ dy = 0 THEN <<1, 0>>
    ELSE LET g == GCD(Abs(dx), Abs(dy)) IN <<dx \div g, dy \div g>>

\* A line as QGraphicsLineItem.setLine stores it.  The point (sx, sy) is
\* shifted by s_off along `angle` and (tx, ty) by t_off against it, so
\*   x1 = sx + s_off*cos(angle)   y1 = sy + s_off*sin(angle)
\*   x2 = tx - t_off*cos(angle)   y2 = ty - t_off*sin(angle)
Line(sx, sy, tx, ty, s_off, t_off, angle) ==
    [ sx |-> sx, sy |-> sy, tx |-> tx, ty |-> ty,
      s_off |-> s_off, t_off |-> t_off, angle |-> angle ]

\* setLine(x1, y1, x2, y2) with plain coordinates
setLine(x1, y1, x2, y2) == Line(x1, y1, x2, y2, 0, 0, <<1, 0>>)

\* The re-routing function: the line between the two circles' boundaries,
\* from the positions of the source and the target.
Route(s, t) ==
    Line(CenterX(s), CenterY(s), CenterX(t), CenterY(t),
         Diameter \div 2, Diameter \div 2,
         Atan2(CenterY(t) - CenterY(s), CenterX(t) - CenterX(s)))

\* EdgeItem.update_positions: the line of `edge`, from the nodes of heap ns
update_positions(ns, edge) ==
    IF edge.source_node = None THEN edge.line
    ELSE IF edge.target_node # None
         THEN Route(ns[edge.source_node], ns[edge.target_node])
         ELSE setLine(CenterX(ns[edge.source_node]), CenterY(ns[edge.source_node]),
                      CenterX(ns[edge.source_node]), CenterY(ns[edge.source_node]))

DefaultEdgeData == [type |-> 1, Kd |-> 10, n |-> 10]

\* EdgeItem.__init__: the heaps after constructing an edge; the new edge is
\* the last one of the edge heap.
EdgeItem_init(ns, es, source, target) ==
    LET id  == Len(es) + 1
        ns1 == [ns EXCEPT ![source] = add_edge(@, id)]
        ns2 == IF target # None
               THEN [ns1 EXCEPT ![target] = add_edge(@, id)]
               ELSE ns1
        new == [ source_node |-> source, target_node |-> target,
                 edge_data |-> DefaultEdgeData,
                 line |-> setLine(0, 0, 0, 0) ]
    IN  [ nodes |-> ns2,
          edges |-> Append(es, [new EXCEPT !.line = update_positions(ns2, new)]) ]

\* set_target_node without the registration with the new target
set_target_node_Unregistered(ns, es, e, node) ==
    LET e1 == [es[e] EXCEPT !.target_node = node]
    IN  [ nodes |-> ns,
          edges |-> [es EXCEPT ![e] = [e1 EXCEPT !.line = update_positions(ns, e1)]] ]

\* EdgeItem.set_target_node: the heaps after edge e is given target `node`
set_target_node(ns, es, e, node) ==
    LET ns1 == IF es[e].target_node # None
               THEN [ns EXCEPT ![es[e].target_node] = remove_edge(@, e)]
               ELSE ns
        ns2 == [ns1 EXCEPT ![node] = add_edge(@, e)]
        e1  == [es[e] EXCEPT !.target_node = node]
    IN  [ nodes |-> ns2,
          edges |-> [es EXCEPT ![e] = [e1 EXCEPT !.line = update_positions(ns2, e1)]] ]

\* ------------------------------------------------------------------------
\* GraphScene
\* ------------------------------------------------------------------------
\* GraphScene.clear_pinned_node: the node heap after the pen reset
clear_pinned_node(ns, pinned) ==
    IF pinned # None THEN [ns EXCEPT ![pinned].pen = "black"] ELSE ns

\* GraphScene.handle_pinned_node: the node heap after pinning `node`
handle_pinned_node(ns, pinned, node) ==
    IF node = pinned THEN ns
    ELSE [clear_pinned_node(ns, pinned) EXCEPT ![node].pen = "cyan"]

\* dist < closest_dist on the squares: math.hypot of integer offsets is
\* compared exactly (hypot(24, 32) == 40.0), and both sides are >= 0.
Dist2(ns, n, pos) ==
    (pos[1] - CenterX(ns[n])) * (pos[1] - CenterX(ns[n]))
  + (pos[2] - CenterY(ns[n])) * (pos[2] - CenterY(ns[n]))

\* The loop of find_nearest_node with `dist <= closest_dist`
RECURSIVE NearestScan_NotStrict(_, _, _, _, _, _)
NearestScan_NotStrict(ns, its, pos, i, closest_node, closest_dist2) ==
    IF i > Len(its) THEN closest_node
    ELSE IF its[i].k = "node" /\ Dist2(ns, its[i].id, pos) <= closest_dist2
         THEN NearestScan_NotStrict(ns, its, pos, i + 1, its[i].id,
                                    Dist2(ns, its[i].id, pos))
         ELSE NearestScan_NotStrict(ns, its, pos, i + 1, closest_node, closest_dist2)

\* The loop of find_nearest_node over items(), from index i on
RECURSIVE NearestScan(_, _, _, _, _, _)
NearestScan(ns, its, pos, i, closest_node, closest_dist2) ==
    IF i > Len(its) THEN closest_node
    ELSE IF its[i].k = "node" /\ Dist2(ns, its[i].id, pos) < closest_dist2
         THEN NearestScan(ns, its, pos, i + 1, its[i].id,
                          Dist2(ns, its[i].id, pos))
         ELSE NearestScan(ns, its, pos, i + 1, closest_node, closest_dist2)

\* GraphScene.find_nearest_node
find_nearest_node(ns, its, pos) ==
    NearestScan(ns, its, pos, 1, None, SNAP_DISTANCE * SNAP_DISTANCE)

\* ------------------------------------------------------------------------
\* Initial state: MainWindow.__init__ and GraphScene.__init__
\* ------------------------------------------------------------------------
Init ==
    /\ nodes = <<>>
    /\ edges = <<>>
    /\ items = <<>>
    /\ selected = {}
    /\ edge_mode = FALSE
    /\ temp_edge = None
    /\ source_node = None
    /\ pinned_node = None
    /\ input_counter = 1
    /\ output_counter = 1
    /\ gene_counter = 1
    /\ input_position = <<50, 50>>
    /\ gene_position = <<200, 50>>
    /\ output_position = <<400, 50>>
    /\ node_inputs = <<>>
    /\ file = NoFile
    /\ my_grn = NoGrn
    /\ gesture = NoGesture

\* ------------------------------------------------------------------------
\* MainWindow: node creation
\* ------------------------------------------------------------------------
\* f"I{counter}", f"O{counter}", f"G{counter}"
Label(prefix, counter) == prefix \o ToString(counter)

add_input_node ==
    /\ Len(nodes) < MaxNodeObjs
    /\ LET node_data == [label |-> Label("I", input_counter), node_type |-> "input"]
           node == Len(nodes) + 1
       IN  /\ nodes' = Append(nodes, NodeItem(input_position[1], input_position[2], node_data))
           /\ items' = addItem(items, NodeRef(node))
           /\ node_inputs' = (node_data.label :> node) @@ node_inputs
    /\ input_counter' = input_counter + 1
    /\ input_position' = [input_position EXCEPT ![2] = @ + node_spacing]
    /\ gesture' = NoGesture
    /\ UNCHANGED << edges, selected, sceneVars, output_counter, gene_counter,
                    gene_position, output_position, outVars >>

add_output_node ==
    /\ Len(nodes) < MaxNodeObjs
    /\ LET node_data == [label |-> Label("O", output_counter), node_type |-> "output",
                         deg_rate |-> 1]
           node == Len(nodes) + 1
       IN  /\ nodes' = Append(nodes, NodeItem(output_position[1], output_position[2], node_data))
           /\ items' = addItem(items, NodeRef(node))
    /\ output_counter' = output_counter + 1
    /\ output_position' = [output_position EXCEPT ![2] = @ + node_spacing]
    /\ gesture' = NoGesture
    /\ UNCHANGED << edges, selected, sceneVars, input_counter, gene_counter,
                    input_position, gene_position, node_inputs, outVars >>

add_gene_node ==
    /\ Len(nodes) < MaxNodeObjs
    /\ LET node_data == [label |-> Label("G", gene_counter), node_type |-> "gene",
                         alpha |-> 10, logic_type |-> "and"]
           node == Len(nodes) + 1
       IN  /\ nodes' = Append(nodes, NodeItem(gene_position[1], gene_position[2], node_data))
           /\ items' = addItem(items, NodeRef(node))
    /\ gene_counter' = gene_counter + 1
    /\ gene_position' = [gene_position EXCEPT ![2] = @ + node_spacing]
    /\ gesture' = NoGesture
    /\ UNCHANGED << edges, selected, sceneVars, input_counter, output_counter,
                    input_position, output_position, node_inputs, outVars >>

\* ------------------------------------------------------------------------
\* GraphScene: edge mode and the drafting gesture
\* ------------------------------------------------------------------------
\* GraphScene.set_edge_mode, from MainWindow.on_edge_mode_toggled
set_edge_mode(enabled) ==
    /\ enabled # edge_mode
    /\ edge_mode' = enabled
    /\ IF ~enabled
       THEN /\ items' = IF temp_edge # None
                        THEN removeItem(items, EdgeRef(temp_edge)) ELSE items
            /\ selected' = IF temp_edge # None
                           THEN selected \ {EdgeRef(temp_edge)} ELSE selected
            /\ temp_edge' = None
            /\ source_node' = None
            /\ nodes' = clear_pinned_node(nodes, pinned_node)
            /\ pinned_node' = None
       ELSE UNCHANGED << items, selected, temp_edge, source_node, nodes, pinned_node >>
    /\ gesture' = NoGesture
    /\ UNCHANGED << edges, counterVars, node_inputs, outVars >>

\* The drafting machine's Idle state
Idle == temp_edge = None /\ source_node = None /\ pinned_node = None

\* The edges of the scene, each with its endpoints and parameters
SceneEdgeRecords ==
    [ e \in SceneEdges |->
        [ source_node |-> edges[e].source_node, target_node |-> edges[e].target_node,
          edge_data |-> edges[e].edge_data ] ]

\* GraphScene.mousePressEvent on the item `target` under the pointer (NoItem:
\* empty canvas).  Outside the drafting branch the event goes to the base
\* class, which makes the pressed item the selection (with Ctrl held: flips
\* its membership) and, on empty canvas, clears the selection.
mousePressEvent(target, ctrl) ==
    /\ target = NoItem \/ target \in SceneItems
    /\ IF edge_mode /\ target.k = "node"
       THEN /\ Len(edges) < MaxEdgeObjs
            /\ ~ctrl
            /\ source_node' = target.id
            /\ LET made == EdgeItem_init(nodes, edges, target.id, None)
               IN  /\ nodes' = made.nodes
                   /\ edges' = made.edges
                   /\ temp_edge' = Len(made.edges)
                   /\ items' = addItem(items, EdgeRef(Len(made.edges)))
            /\ gesture' = IF Idle
                           THEN [ stage |-> "pressed", source |-> target.id,
                                  edge |-> Len(edges) + 1, pos |-> <<0, 0>>,
                                  pinned |-> None,
                                  ever_pinned |-> FALSE,
                                  edges0 |-> SceneEdgeRecords,
                                  lists0 |-> [n \in DOMAIN nodes |-> nodes[n].edges] ]
                           ELSE NoGesture
            /\ UNCHANGED << selected, edge_mode, pinned_node >>
       ELSE /\ selected' =
                IF target = NoItem THEN (IF ctrl THEN selected ELSE {})
                ELSE IF ctrl
                     THEN (IF target \in selected THEN selected \ {target}
                                                  ELSE selected \cup {target})
                     ELSE {target}
            /\ selected' # selected
            /\ gesture' = NoGesture
            /\ UNCHANGED << nodes, edges, items, sceneVars >>
    /\ UNCHANGED << counterVars, node_inputs, outVars >>

\* GraphScene.mouseMoveEvent, drafting branch, pointer at scene point pos
mouseMoveEvent(pos) ==
    /\ edge_mode /\ temp_edge # None /\ source_node # None
    /\ LET nearest == find_nearest_node(nodes, items, pos)
           sx == CenterX(nodes[source_node])
           sy == CenterY(nodes[source_node])
       IN  IF nearest # None /\ nearest # source_node
           THEN /\ nodes' = handle_pinned_node(nodes, pinned_node, nearest)
                /\ pinned_node' = nearest
                /\ edges' = [edges EXCEPT ![temp_edge].line =
                                setLine(sx, sy, CenterX(nodes[nearest]), CenterY(nodes[nearest]))]
           ELSE /\ nodes' = clear_pinned_node(nodes, pinned_node)
                /\ pinned_node' = None
                /\ edges' = [edges EXCEPT ![temp_edge].line = setLine(sx, sy, pos[1], pos[2])]
    /\ gesture' = IF gesture.stage \in {"pressed", "moved"}
                   THEN [gesture EXCEPT !.stage = "moved", !.pos = pos,
                                        !.pinned = pinned_node',
                                        !.ever_pinned = @ \/ pinned_node' # None]
                   ELSE NoGesture
    /\ UNCHANGED << items, selected, edge_mode, temp_edge, source_node,
                    counterVars, node_inputs, outVars >>

\* GraphScene.mouseReleaseEvent, drafting branch
mouseReleaseEvent ==
    /\ edge_mode /\ temp_edge # None /\ source_node # None
    /\ IF pinned_node # None /\ pinned_node # source_node
       THEN LET set == set_target_node(nodes, edges, temp_edge, pinned_node)
            IN  /\ nodes' = clear_pinned_node(set.nodes, pinned_node)
                /\ edges' = set.edges
                /\ UNCHANGED << items, selected >>
       ELSE /\ items' = removeItem(items, EdgeRef(temp_edge))
            /\ selected' = selected \ {EdgeRef(temp_edge)}
            /\ nodes' = clear_pinned_node(nodes, pinned_node)
            /\ UNCHANGED edges
    /\ temp_edge' = None
    /\ source_node' = None
    /\ pinned_node' = None
    /\ gesture' = IF gesture.stage \in {"pressed", "moved"}
                   THEN [gesture EXCEPT !.stage = "released"]
                   ELSE NoGesture
    /\ UNCHANGED << edge_mode, counterVars, node_inputs, outVars >>

\* ------------------------------------------------------------------------
\* MainWindow: deletion
\* ------------------------------------------------------------------------
SelectedNodes == { it.id : it \in { r \in selected : r.k = "node" } }
SelectedEdges == { it.id : it \in { r \in selected : r.k = "edge" } }

delete_selected_node ==
    /\ SelectedNodes # {}
    /\ LET labels  == { nodes[n].node_data.label : n \in SelectedNodes }
           removed == { NodeRef(n) : n \in SelectedNodes }
                      \cup { EdgeRef(e) : e \in UNION { SeqToSet(nodes[n].edges) : n \in SelectedNodes } }
       IN  /\ node_inputs' = [ l \in (DOMAIN node_inputs) \ labels |-> node_inputs[l] ]
           /\ items' = removeItems(items, removed)
           /\ selected' = selected \ removed
    /\ gesture' = NoGesture
    /\ UNCHANGED << nodes, edges, sceneVars, counterVars, outVars >>

delete_selected_edge ==
    /\ SelectedEdges # {}
    /\ items' = removeItems(items, { EdgeRef(e) : e \in SelectedEdges })
    /\ selected' = selected \ { EdgeRef(e) : e \in SelectedEdges }
    /\ gesture' = NoGesture
    /\ UNCHANGED << nodes, edges, sceneVars, counterVars, node_inputs, outVars >>

\* ------------------------------------------------------------------------
\* Moving a node
\* ------------------------------------------------------------------------
\* NodeItem.itemChange(ItemPositionChange, value), sent by setPos while the
\* base class drags the selected node n: the notification comes before the
\* position is changed, so x() and y() still give the old position while
\* the handler runs; the base class stores `value` afterwards.
\* The node was grabbed by a press that GraphScene.mousePressEvent passed
\* on, which it does for a node only outside edge mode, and that press
\* selected it.
itemChange(n, value) ==
    /\ NodeRef(n) \in selected
    /\ ~edge_mode
    /\ value # <<nodes[n].x, nodes[n].y>>
    /\ edges' = [ e \in DOMAIN edges |->
                    IF e \in SeqToSet(nodes[n].edges)
                    THEN [edges[e] EXCEPT !.line = update_positions(nodes, edges[e])]
                    ELSE edges[e] ]
    /\ nodes' = [nodes EXCEPT ![n].x = value[1], ![n].y = value[2]]
    /\ gesture' = NoGesture
    /\ UNCHANGED << items, selected, sceneVars, counterVars, node_inputs, outVars >>

\* ------------------------------------------------------------------------
\* Editing dialogs
\* ------------------------------------------------------------------------
\* dict[key] = value
Put(d, key, value) == (key :> value) @@ d

\* str.strip() on the texts typed into the dialogs
Strip(text) ==
    CASE text = " I1 " -> "I1"
      [] text = "  "   -> ""
      [] OTHER         -> text

\* What the user answers: (ok, text) or (ok, value)
Cancelled == [ok |-> FALSE]
NameDialog == { Cancelled, [ok |-> TRUE, text |-> " I1 "], [ok |-> TRUE, text |-> "X"],
                [ok |-> TRUE, text |-> "  "] }
AlphaDialog == { Cancelled, [ok |-> TRUE, value |-> 20] }
LogicDialog == { Cancelled, [ok |-> TRUE, text |-> "or"], [ok |-> TRUE, text |-> "xor"] }
DegDialog == { Cancelled, [ok |-> TRUE, value |-> 5] }
TypeDialog == { Cancelled, [ok |-> TRUE, value |-> -1], [ok |-> TRUE, value |-> 0] }
KdDialog == { Cancelled, [ok |-> TRUE, value |-> 20] }
NDialog == { Cancelled, [ok |-> TRUE, value |-> 20] }

\* The dialogs of a node with a logic type other than 'and' / 'or' stored
\* as 'and'
EditedNodeData_Coerced(d, name, alpha, logic, deg) ==
    LET d1 == IF name.ok /\ Strip(name.text) # ""
              THEN Put(d, "label", Strip(name.text)) ELSE d
    IN  IF d1.node_type = "gene"
        THEN LET d2 == IF alpha.ok THEN Put(d1, "alpha", alpha.value) ELSE d1
             IN  IF logic.ok /\ logic.text \in {"and", "or"}
                 THEN Put(d2, "logic_type", logic.text)
                 ELSE IF logic.ok THEN Put(d2, "logic_type", "and") ELSE d2
        ELSE IF d1.node_type = "output"
             THEN (IF deg.ok THEN Put(d1, "deg_rate", deg.value) ELSE d1)
             ELSE d1

\* The node_data of a node after NodeItem.mouseDoubleClickEvent's dialogs
EditedNodeData(d, name, alpha, logic, deg) ==
    LET d1 == IF name.ok /\ Strip(name.text) # ""
              THEN Put(d, "label", Strip(name.text)) ELSE d
    IN  IF d1.node_type = "gene"
        THEN LET d2 == IF alpha.ok THEN Put(d1, "alpha", alpha.value) ELSE d1
             IN  IF logic.ok /\ logic.text \in {"and", "or"}
                 THEN Put(d2, "logic_type", logic.text) ELSE d2
        ELSE IF d1.node_type = "output"
             THEN (IF deg.ok THEN Put(d1, "deg_rate", deg.value) ELSE d1)
             ELSE d1

\* NodeItem.mouseDoubleClickEvent on node n of the scene; the base class
\* handler it ends with treats the event as a press on the item, which
\* selects it.
NodeItem_mouseDoubleClickEvent(n, name, alpha, logic, deg) ==
    /\ n \in SceneNodes
    /\ nodes' = [nodes EXCEPT ![n].node_data = EditedNodeData(@, name, alpha, logic, deg)]
    /\ selected' = {NodeRef(n)}
    /\ gesture' = NoGesture
    /\ UNCHANGED << edges, items, sceneVars, counterVars, node_inputs, outVars >>

\* The edge_data of an edge after EdgeItem.mouseDoubleClickEvent's dialogs
EditedEdgeData(d, type, kd, n) ==
    LET d1 == IF type.ok /\ type.value \in {-1, 1} THEN Put(d, "type", type.value) ELSE d
        d2 == IF kd.ok THEN Put(d1, "Kd", kd.value) ELSE d1
    IN  IF n.ok THEN Put(d2, "n", n.value) ELSE d2

\* EdgeItem.mouseDoubleClickEvent on edge e of the scene
EdgeItem_mouseDoubleClickEvent(e, type, kd, n) ==
    /\ e \in SceneEdges
    /\ edges' = [edges EXCEPT ![e].edge_data = EditedEdgeData(@, type, kd, n)]
    /\ selected' = {EdgeRef(e)}
    /\ gesture' = NoGesture
    /\ UNCHANGED << nodes, items, sceneVars, counterVars, node_inputs, outVars >>

\* ------------------------------------------------------------------------
\* networkx.DiGraph and the GraphML file
\* ------------------------------------------------------------------------
\* A DiGraph: its nodes and its edges, each in insertion order.  A GraphML
\* file holds the same: ids and labels are strings, and write_graphml /
\* read_graphml keep the int, float and str attributes used here.
EmptyGraph == [nodes |-> <<>>, edges |-> <<>>]

NodeIndex(g, id) ==
    IF \E i \in 1..Len(g.nodes) : g.nodes[i].id = id
    THEN CHOOSE i \in 1..Len(g.nodes) : g.nodes[i].id = id
    ELSE 0

EdgeIndex(g, u, v) ==
    IF \E i \in 1..Len(g.edges) : g.edges[i].source = u /\ g.edges[i].target = v
    THEN CHOOSE i \in 1..Len(g.edges) : g.edges[i].source = u /\ g.edges[i].target = v
    ELSE 0

\* DiGraph.add_node(id, **attrs): a known node has its attributes updated
G_add_node(g, id, attrs) ==
    IF NodeIndex(g, id) # 0
    THEN [g EXCEPT !.nodes[NodeIndex(g, id)].data = attrs @@ @]
    ELSE [g EXCEPT !.nodes = Append(@, [id |-> id, data |-> attrs])]

\* DiGraph.add_edge(u, v, **attrs): unknown endpoints become nodes without
\* attributes; a known edge u -> v has its attributes updated
G_add_edge(g, u, v, attrs) ==
    LET g1 == IF NodeIndex(g, u) = 0 THEN G_add_node(g, u, <<>>) ELSE g
        g2 == IF NodeIndex(g1, v) = 0 THEN G_add_node(g1, v, <<>>) ELSE g1
    IN  IF EdgeIndex(g2, u, v) # 0
        THEN [g2 EXCEPT !.edges[EdgeIndex(g2, u, v)].data = attrs @@ @]
        ELSE [g2 EXCEPT !.edges = Append(@, [source |-> u, target |-> v, data |-> attrs])]

\* DiGraph.edges(data=True): the edges by source node in node order, the
\* edges of one source in insertion order
RECURSIVE G_edges_from(_, _)
G_edges_from(g, i) ==
    IF i > Len(g.nodes) THEN <<>>
    ELSE SelectSeq(g.edges, LAMBDA e : e.source = g.nodes[i].id) \o G_edges_from(g, i + 1)

G_edges(g) == G_edges_from(g, 1)

\* ------------------------------------------------------------------------
\* MainWindow: export
\* ------------------------------------------------------------------------
\* export_nx_graph reads item.target_node.node_data of every EdgeItem of the
\* scene: an edge without target raises AttributeError
ExportRaises == \E e \in SceneEdges : edges[e].target_node = None

\* The loop of export_nx_graph over items(), from index i on
RECURSIVE ExportScan(_, _)
ExportScan(i, graph) ==
    IF i > Len(items) THEN graph
    ELSE IF items[i].k = "node"
         THEN LET item == nodes[items[i].id]
                  node_data == Put(Put(item.node_data, "x", item.x), "y", item.y)
              IN  ExportScan(i + 1, G_add_node(graph, item.node_data.label, node_data))
         ELSE LET item == edges[items[i].id]
              IN  ExportScan(i + 1,
                      G_add_edge(graph, nodes[item.source_node].node_data.label,
                                 nodes[item.target_node].node_data.label, item.edge_data))

\* The graph export_nx_graph writes
ExportGraph == ExportScan(1, EmptyGraph)

\* MainWindow.export_nx_graph with a file name chosen; an exception leaves
\* the handler before anything is written
export_nx_graph ==
    /\ file' = IF ExportRaises THEN file ELSE [written |-> TRUE, graph |-> ExportGraph]
    /\ gesture' = NoGesture
    /\ UNCHANGED << nodes, edges, items, selected, sceneVars, counterVars,
                    node_inputs, my_grn >>

\* ------------------------------------------------------------------------
\* MainWindow: build_grn
\* ------------------------------------------------------------------------
NodeItems == SelectSeq(items, LAMBDA it : it.k = "node")
EdgeItems == SelectSeq(items, LAMBDA it : it.k = "edge")

NodesOfType(type) ==
    SelectSeq(NodeItems, LAMBDA it : Get(nodes[it.id].node_data, "node_type", None) = type)

\* build_grn reads targetNode.node_data of every edge whose source is a
\* gene node of the scene: such an edge without target raises AttributeError
BuildGrnRaises ==
    \E e \in SceneEdges : /\ edges[e].target_node = None
                          /\ \E i \in 1..Len(NodesOfType("gene")) :
                                NodesOfType("gene")[i].id = edges[e].source_node

\* products of gene g: the `if (sourceNode == geneNodes)` branch
Products(g) ==
    LET out == SelectSeq(EdgeItems, LAMBDA it : edges[it.id].source_node = g)
    IN  [ i \in 1..Len(out) |->
            [name |-> nodes[edges[out[i].id].target_node].node_data.label] ]

\* regulators of gene g: the `elif (targetNode == geneNodes)` branch
Regulators(g) ==
    LET in == SelectSeq(EdgeItems, LAMBDA it : /\ edges[it.id].source_node # g
                                               /\ edges[it.id].target_node = g)
    IN  [ i \in 1..Len(in) |->
            [ name |-> nodes[edges[in[i].id].source_node].node_data.label,
              type |-> Get(edges[in[i].id].edge_data, "type", 1),
              Kd   |-> Get(edges[in[i].id].edge_data, "Kd", 10),
              n    |-> Get(edges[in[i].id].edge_data, "n", 10) ] ]

\* MainWindow.build_grn: the calls made on the grn object
build_grn ==
    [ built   |-> TRUE,
      inputs  |-> [ i \in 1..Len(NodesOfType("input")) |->
                      nodes[NodesOfType("input")[i].id].node_data.label ],
      species |-> [ i \in 1..Len(NodesOfType("output")) |->
                      [ name |-> nodes[NodesOfType("output")[i].id].node_data.label,
                        deg_rate |-> Get(nodes[NodesOfType("output")[i].id].node_data,
                                         "deg_rate", None) ] ],
      genes   |-> [ i \in 1..Len(NodesOfType("gene")) |->
                      LET g == NodesOfType("gene")[i].id
                      IN  [ alpha |-> Get(nodes[g].node_data, "alpha", 10),
                          regulators |-> Regulators(g),
                          products |-> Products(g),
                          logic_type |-> Get(nodes[g].node_data, "logic_type", "and") ] ] ]

\* MainWindow.plot_grn: build_grn, handed to the plotter; an exception in
\* build_grn leaves the handler
plot_grn ==
    /\ my_grn' = IF BuildGrnRaises THEN my_grn ELSE build_grn
    /\ gesture' = NoGesture
    /\ UNCHANGED << nodes, edges, items, selected, sceneVars, counterVars,
                    node_inputs, file >>

\* ------------------------------------------------------------------------
\* MainWindow: import
\* ------------------------------------------------------------------------
\* Files that did not come from export_nx_graph: a gene that regulates
\* itself, and a single input node
ForeignFiles ==
    { [ nodes |-> << [ id |-> "G1",
                       data |-> [ label |-> "G1", node_type |-> "gene", alpha |-> 10,
                                  logic_type |-> "and", x |-> 200, y |-> 50 ] ] >>,
        edges |-> << [ source |-> "G1", target |-> "G1",
                       data |-> [type |-> -1, Kd |-> 10, n |-> 20] ] >> ],
      [ nodes |-> << [ id |-> "I1",
                       data |-> [ label |-> "I1", node_type |-> "input",
                                  x |-> 50, y |-> 50 ] ] >>,
        edges |-> <<>> ] }

\* The files the user can pick
Files == ForeignFiles \cup (IF file.written THEN {file.graph} ELSE {})

\* The first loop of import_nx_graph, over graph.nodes(data=True) from index
\* i on; st holds the node heap, the scene and node_inputs
RECURSIVE ImportNodes(_, _, _)
ImportNodes(st, graph, i) ==
    IF i > Len(graph.nodes) THEN st
    ELSE LET node == graph.nodes[i].id
             data == graph.nodes[i].data
             node_type == Get(data, "node_type", "normal")
             node_data == data @@ [label |-> node, node_type |-> node_type]
             node_item == Len(st.nodes) + 1
         IN  ImportNodes(
                 [ nodes |-> Append(st.nodes,
                                    NodeItem(Get(data, "x", 0), Get(data, "y", 0), node_data)),
                   items |-> addItem(st.items, NodeRef(node_item)),
                   node_inputs |-> IF node_type = "input"
                                   THEN (node :> node_item) @@ st.node_inputs
                                   ELSE st.node_inputs ],
                 graph, i + 1)

\* next(item for item in self.scene.items() if isinstance(item, NodeItem)
\*      and item.node_data['label'] == label); None stands for StopIteration
NodeByLabel(ns, its, label) ==
    LET found == SelectSeq(its, LAMBDA it : it.k = "node" /\ ns[it.id].node_data.label = label)
    IN  IF Len(found) = 0 THEN None ELSE found[1].id

\* The second loop of import_nx_graph, over graph.edges(data=True) from
\* index i on; st holds the two heaps and the scene.  StopIteration leaves
\* the handler with the edges made so far.
RECURSIVE ImportEdges(_, _, _)
ImportEdges(st, gedges, i) ==
    IF i > Len(gedges) THEN st
    ELSE LET source_item == NodeByLabel(st.nodes, st.items, gedges[i].source)
             target_item == NodeByLabel(st.nodes, st.items, gedges[i].target)
         IN  IF source_item = None \/ target_item = None THEN st
             ELSE LET made == EdgeItem_init(st.nodes, st.edges, source_item, target_item)
                      edge_item == Len(made.edges)
                  IN  ImportEdges(
                          [ nodes |-> made.nodes,
                            edges |-> [made.edges EXCEPT ![edge_item].edge_data =
                                          gedges[i].data @@ @],
                            items |-> addItem(st.items, EdgeRef(edge_item)) ],
                          gedges, i + 1)

\* MainWindow.import_nx_graph of the file holding `graph`.  scene.clear()
\* destroys the items of the scene; the import is taken with no draft under
\* way, when the scene object holds no reference to any of them.
import_nx_graph(graph) ==
    /\ Idle
    /\ Len(nodes) + Len(graph.nodes) <= MaxNodeObjs
    /\ Len(edges) + Len(graph.edges) <= MaxEdgeObjs
    /\ LET st1 == ImportNodes([nodes |-> nodes, items |-> <<>>, node_inputs |-> <<>>],
                              graph, 1)
           st2 == ImportEdges([nodes |-> st1.nodes, edges |-> edges, items |-> st1.items],
                              G_edges(graph), 1)
       IN  /\ nodes' = st2.nodes
           /\ edges' = st2.edges
           /\ items' = st2.items
           /\ node_inputs' = st1.node_inputs
    /\ selected' = {}
    /\ input_counter' = 1
    /\ output_counter' = 1
    /\ gene_counter' = 1
    /\ input_position' = <<50, 50>>
    /\ gene_position' = <<200, 50>>
    /\ output_position' = <<400, 50>>
    /\ gesture' = NoGesture
    /\ UNCHANGED << sceneVars, outVars >>

\* The scene the two loops of import_nx_graph build from `graph`, after
\* scene.clear() has emptied the scene
Imported(graph) ==
    LET st1 == ImportNodes([nodes |-> <<>>, items |-> <<>>, node_inputs |-> <<>>],
                           graph, 1)
    IN  ImportEdges([nodes |-> st1.nodes, edges |-> <<>>, items |-> st1.items],
                    G_edges(graph), 1)

\* ------------------------------------------------------------------------
\* Specification
\* ------------------------------------------------------------------------
\* Every handler of the editor, with every input of the sets above
Next ==
    \/ add_input_node
    \/ add_output_node
    \/ add_gene_node
    \/ \E enabled \in BOOLEAN : set_edge_mode(enabled)
    \/ \E target \in SceneItems \cup {NoItem}, ctrl \in BOOLEAN : mousePressEvent(target, ctrl)
    \/ \E pos \in PointerPoints : mouseMoveEvent(pos)
    \/ mouseReleaseEvent
    \/ delete_selected_node
    \/ delete_selected_edge
    \/ \E n \in SelectedNodes, value \in DragPositions : itemChange(n, value)
    \/ \E n \in SceneNodes, name \in NameDialog, alpha \in AlphaDialog,
          logic \in LogicDialog, deg \in DegDialog :
            NodeItem_mouseDoubleClickEvent(n, name, alpha, logic, deg)
    \/ \E e \in SceneEdges, type \in TypeDialog, kd \in KdDialog, n \in NDialog :
            EdgeItem_mouseDoubleClickEvent(e, type, kd, n)
    \/ export_nx_graph
    \/ plot_grn
    \/ \E graph \in Files : import_nx_graph(graph)

Spec == Init /\ [][Next]_vars

\* The editor is checked in scenarios.  Each scenario takes the same initial
\* state and a part of the handlers and inputs of Next, so each of its
\* behaviours is a behaviour of Spec.

\* Drafting: building a scene, the drafting gesture, selection and deletion
NextDraft ==
    \/ add_input_node
    \/ add_gene_node
    \/ \E enabled \in BOOLEAN : set_edge_mode(enabled)
    \/ \E target \in SceneItems \cup {NoItem} : mousePressEvent(target, FALSE)
    \/ \E pos \in PointerPoints : mouseMoveEvent(pos)
    \/ mouseReleaseEvent
    \/ delete_selected_node
    \/ delete_selected_edge

SpecDraft == Init /\ [][NextDraft]_vars

\* Points of the gesture scenario: the tie between the first two input
\* nodes, a point that pins the second one, and a point far from everything
GesturePoints == { <<75, 105>>, <<75, 115>>, <<600, 600>> }

\* Gestures: input nodes and the drafting gesture, repeated presses and
\* cancelled drafts included
NextGesture ==
    \/ add_input_node
    \/ \E enabled \in BOOLEAN : set_edge_mode(enabled)
    \/ \E target \in SceneItems \cup {NoItem} : mousePressEvent(target, FALSE)
    \/ \E pos \in GesturePoints : mouseMoveEvent(pos)
    \/ mouseReleaseEvent

SpecGesture == Init /\ [][NextGesture]_vars

\* Scenes: nodes of every kind added, imported, dragged and deleted
NextScene ==
    \/ add_input_node
    \/ add_output_node
    \/ add_gene_node
    \/ \E graph \in ForeignFiles : import_nx_graph(graph)
    \/ \E target \in SceneItems \cup {NoItem} : mousePressEvent(target, FALSE)
    \/ \E n \in SelectedNodes, value \in DragPositions : itemChange(n, value)
    \/ delete_selected_node
    \/ delete_selected_edge

SpecScene == Init /\ [][NextScene]_vars

\* Files: input nodes, completed and discarded drafts, export, and import of
\* the file written or of a foreign one
NextFile ==
    \/ add_input_node
    \/ \E enabled \in BOOLEAN : set_edge_mode(enabled)
    \/ \E target \in SceneItems \cup {NoItem} : mousePressEvent(target, FALSE)
    \/ \E pos \in GesturePoints : mouseMoveEvent(pos)
    \/ mouseReleaseEvent
    \/ export_nx_graph
    \/ \E graph \in Files : import_nx_graph(graph)

SpecFile == Init /\ [][NextFile]_vars

\* Attributes: input and gene nodes added, edited through the dialogs and
\* deleted (the dialog for deg_rate is shown for output nodes only)
NextAttr ==
    \/ add_input_node
    \/ add_gene_node
    \/ \E n \in SceneNodes, name \in NameDialog, alpha \in AlphaDialog,
          logic \in LogicDialog :
            NodeItem_mouseDoubleClickEvent(n, name, alpha, logic, Cancelled)
    \/ delete_selected_node

SpecAttr == Init /\ [][NextAttr]_vars

\* Moving: drafting edges between input nodes and dragging the nodes
NextMove ==
    \/ add_input_node
    \/ \E enabled \in BOOLEAN : set_edge_mode(enabled)
    \/ \E target \in SceneItems \cup {NoItem} : mousePressEvent(target, FALSE)
    \/ \E pos \in PointerPoints : mouseMoveEvent(pos)
    \/ mouseReleaseEvent
    \/ \E n \in SelectedNodes, value \in DragPositions : itemChange(n, value)

SpecMove == Init /\ [][NextMove]_vars

\* Editing: adding, importing, renaming and deleting nodes, editing edges,
\* and assembling the network
NextEdit ==
    \/ add_input_node
    \/ add_output_node
    \/ add_gene_node
    \/ \E graph \in ForeignFiles : import_nx_graph(graph)
    \/ \E target \in SceneItems \cup {NoItem} : mousePressEvent(target, FALSE)
    \/ delete_selected_node
    \/ \E n \in SceneNodes, name \in NameDialog, alpha \in AlphaDialog,
          logic \in LogicDialog, deg \in DegDialog :
            NodeItem_mouseDoubleClickEvent(n, name, alpha, logic, deg)
    \/ \E e \in SceneEdges, type \in TypeDialog, kd \in KdDialog, n \in NDialog :
            EdgeItem_mouseDoubleClickEvent(e, type, kd, n)
    \/ plot_grn

SpecEdit == Init /\ [][NextEdit]_vars

\* ------------------------------------------------------------------------
\* Properties
\* ------------------------------------------------------------------------
Snap2 == SNAP_DISTANCE * SNAP_DISTANCE

\* The place of node n in the scene's iteration order
ItemIndex(n) == CHOOSE i \in 1..Len(items) : items[i] = NodeRef(n)

\* The edges of the scene without target
TransientEdges == { e \in SceneEdges : edges[e].target_node = None }

\* C1: every edge of the scene other than the draft in progress has its
\* source node and its target node in the scene.
C1_NoDanglingEdge ==
    \A e \in SceneEdges :
        e # temp_edge =>
            /\ edges[e].source_node \in SceneNodes
            /\ edges[e].target_node \in SceneNodes

\* C2: at most one edge without target is in the scene.
C2_AtMostOneTransientEdge == Cardinality(TransientEdges) <= 1

\* C3: a step that changes the position of a node leaves every finalized
\* edge of the scene attached to that node with the line the re-routing
\* function gives for the positions after the step.
C3_EdgesFollowNode ==
    [][ \A m \in DOMAIN nodes :
          <<nodes'[m].x, nodes'[m].y>> # <<nodes[m].x, nodes[m].y>> =>
            \A e \in SeqToSet(nodes[m].edges) :
                (e \in SceneEdges /\ edges[e].target_node # None) =>
                    edges'[e].line = Route(nodes'[edges[e].source_node],
                                           nodes'[edges[e].target_node]) ]_vars

\* C4: no two nodes of the scene have the same label.
C4_UniqueLabels ==
    \A a, b \in SceneNodes :
        a # b => nodes[a].node_data.label # nodes[b].node_data.label

\* C5: a gesture from Idle - press on A, moves of which the last pins B,
\* release - ends with exactly one more edge in the scene, from A to B with
\* the default parameters and registered with A and with B, the other edges
\* of the scene as they were, and temp_edge, source_node and pinned_node
\* unset.
C5_DraftCreatesOneEdge ==
    (gesture.stage = "released" /\ gesture.pinned # None) =>
        /\ gesture.pinned # gesture.source
        /\ gesture.edge \notin DOMAIN gesture.edges0
        /\ SceneEdges = DOMAIN gesture.edges0 \cup {gesture.edge}
        /\ \A e \in DOMAIN gesture.edges0 : SceneEdgeRecords[e] = gesture.edges0[e]
        /\ SceneEdgeRecords[gesture.edge] =
              [ source_node |-> gesture.source, target_node |-> gesture.pinned,
                edge_data |-> [type |-> 1, Kd |-> 10, n |-> 10] ]
        /\ gesture.edge \in SeqToSet(nodes[gesture.source].edges)
        /\ gesture.edge \in SeqToSet(nodes[gesture.pinned].edges)
        /\ temp_edge = None /\ source_node = None /\ pinned_node = None

\* C5 witness: such a gesture has ended in a scene that held an edge before
C5_Witness ==
    /\ gesture.stage = "released"
    /\ gesture.pinned # None
    /\ DOMAIN gesture.edges0 # {}

\* C6: a gesture from Idle - press on A, moves that pin nothing, release -
\* leaves the edges of the scene and every node's edges list as they were
\* before the press.
C6_DiscardedDraftLeavesNoTrace ==
    (gesture.stage = "released" /\ ~gesture.ever_pinned) =>
        /\ SceneEdgeRecords = gesture.edges0
        /\ \A m \in DOMAIN gesture.lists0 : nodes[m].edges = gesture.lists0[m]

\* C7: after a move to pos in a gesture with source S, the pinned node is a
\* nearest one among the nodes other than S whose center is strictly within
\* the snap radius of pos, and none only when there is no such node.
C7_PinsNearestOtherNode ==
    gesture.stage = "moved" =>
        LET others == { m \in SceneNodes \ {gesture.source} :
                          Dist2(nodes, m, gesture.pos) < Snap2 }
        IN  IF others = {} THEN pinned_node = None
            ELSE /\ pinned_node \in others
                 /\ \A m \in others :
                      Dist2(nodes, pinned_node, gesture.pos) <= Dist2(nodes, m, gesture.pos)

\* Points find_nearest_node is asked about
QueryPoints == { <<x, y>> : x \in {51, 75, 99, 115, 225, 249},
                            y \in {43, 73, 75, 90, 100, 105, 107, 115, 135, 600} }

\* C8: find_nearest_node gives a node of the scene at the least distance
\* when that distance is strictly below SNAP_DISTANCE, the first such node
\* in the scene's iteration order, and none otherwise.
C8_NearestNode ==
    \A pos \in QueryPoints :
        LET r == find_nearest_node(nodes, items, pos)
        IN  IF \A m \in SceneNodes : Dist2(nodes, m, pos) >= Snap2
            THEN r = None
            ELSE /\ r \in SceneNodes
                 /\ \A m \in SceneNodes :
                      /\ Dist2(nodes, r, pos) <= Dist2(nodes, m, pos)
                      /\ Dist2(nodes, m, pos) = Dist2(nodes, r, pos)
                            => ItemIndex(r) <= ItemIndex(m)

\* C8 witness: the scene holds two nodes at the same distance, below
\* SNAP_DISTANCE, from one point, and a node at exactly SNAP_DISTANCE from
\* another point that has no node nearer
C8_Witness ==
    /\ \E pos \in QueryPoints : \E a, b \in SceneNodes :
          /\ a # b
          /\ Dist2(nodes, a, pos) = Dist2(nodes, b, pos)
          /\ Dist2(nodes, a, pos) < Snap2
          /\ find_nearest_node(nodes, items, pos) \in {a, b}
    /\ \E pos \in QueryPoints :
          /\ \E a \in SceneNodes : Dist2(nodes, a, pos) = Snap2
          /\ find_nearest_node(nodes, items, pos) = None

\* C9: with no draft in progress, neither export_nx_graph nor build_grn
\* comes upon an edge without target.
C9_NoTransientEdgeRead ==
    temp_edge = None => ~ExportRaises /\ ~BuildGrnRaises

\* C10: build_grn passes, for every gene node g of the scene, one regulator
\* entry for every edge of the scene whose target is g and one product entry
\* for every edge of the scene whose source is g.
C10_GrnListsEveryEdge ==
    ~BuildGrnRaises =>
        \A i \in 1..Len(NodesOfType("gene")) :
            LET g == NodesOfType("gene")[i].id
                gene == build_grn.genes[i]
                incoming == { e \in SceneEdges : edges[e].target_node = g }
                outgoing == { e \in SceneEdges : edges[e].source_node = g }
            IN  /\ Len(gene.regulators) = Cardinality(incoming)
                /\ Len(gene.products) = Cardinality(outgoing)
                /\ \A e \in incoming : \E j \in 1..Len(gene.regulators) :
                      gene.regulators[j] =
                          [ name |-> nodes[edges[e].source_node].node_data.label,
                            type |-> edges[e].edge_data.type,
                            Kd |-> edges[e].edge_data.Kd, n |-> edges[e].edge_data.n ]
                /\ \A e \in outgoing : \E j \in 1..Len(gene.products) :
                      gene.products[j] =
                          [name |-> nodes[edges[e].target_node].node_data.label]

\* The graph a scene shows: how many nodes it has of each label, kind,
\* attributes and position, and how many edges of each source, target and
\* parameters
GraphOf(ns, es, its) ==
    LET NodeView(n) ==
            [ label |-> ns[n].node_data.label,
              node_type |-> ns[n].node_data.node_type,
              attrs |-> [ k \in DOMAIN ns[n].node_data \ {"x", "y"} |-> ns[n].node_data[k] ],
              x |-> ns[n].x, y |-> ns[n].y ]
        EdgeView(e) ==
            [ source |-> ns[es[e].source_node].node_data.label,
              target |-> ns[es[e].target_node].node_data.label,
              edge_data |-> es[e].edge_data ]
        ns_in == { its[i].id : i \in { j \in 1..Len(its) : its[j].k = "node" } }
        es_in == { its[i].id : i \in { j \in 1..Len(its) : its[j].k = "edge" } }
    IN  [ nodes |-> [ r \in { NodeView(n) : n \in ns_in } |->
                        Cardinality({ n \in ns_in : NodeView(n) = r }) ],
          edges |-> [ r \in { EdgeView(e) : e \in es_in } |->
                        Cardinality({ e \in es_in : EdgeView(e) = r }) ] ]

\* Every NodeItem made so far was made by one of the three add handlers:
\* nothing has been imported (an import makes nodes and resets the counters)
BuiltByEditor ==
    Len(nodes) = (input_counter - 1) + (output_counter - 1) + (gene_counter - 1)

\* C11: when the file holds what export_nx_graph writes of the present
\* scene, a scene built by the editor's operations alone, with no draft in
\* progress and no edge short of an endpoint, importing the file gives the
\* graph of the present scene: the same nodes by label, kind, attributes and
\* position, the same edges by source, target and parameters.
C11_ImportOfExportIsSame ==
    ( /\ BuiltByEditor
      /\ Idle
      /\ \A e \in SceneEdges : /\ edges[e].source_node \in SceneNodes
                                /\ edges[e].target_node \in SceneNodes
      /\ file.written
      /\ file.graph = ExportGraph ) =>
        LET st == Imported(file.graph)
        IN  GraphOf(st.nodes, st.edges, st.items) = GraphOf(nodes, edges, items)

\* The gene nodes of the scene
SceneGenes == { n \in SceneNodes : nodes[n].node_data.node_type = "gene" }

\* C12: the dialogs of a gene node with a logic type other than 'and' and
\* 'or' leave the node's logic_type as it was, whatever the other dialogs
\* are answered; and in a scene built by the editor's operations alone every
\* gene node's logic_type is 'and' or 'or'.
C12_LogicTypeRejected ==
    \A g \in SceneGenes :
        /\ \A name \in NameDialog, alpha \in AlphaDialog, logic \in LogicDialog,
              deg \in DegDialog :
              (logic.ok /\ logic.text \notin {"and", "or"}) =>
                  EditedNodeData(nodes[g].node_data, name, alpha, logic, deg).logic_type
                      = nodes[g].node_data.logic_type
        /\ BuiltByEditor => nodes[g].node_data.logic_type \in {"and", "or"}

\* C12 witness: a gene node that the dialogs have renamed and given the
\* logic type 'or', the value a coercion to the default would lose
C12_Witness ==
    \E g \in SceneGenes :
        /\ BuiltByEditor
        /\ nodes[g].node_data.label = "X"
        /\ nodes[g].node_data.logic_type = "or"
        /\ \E logic \in LogicDialog : logic.ok /\ logic.text \notin {"and", "or"}

\* C13: a double click on a gene node whose logic type fails validation
\* leaves the node_data of that node as it was, and a double click on an edge
\* whose type fails validation leaves the edge_data of that edge as it was.
C13_EditsAreTransactional ==
    [][ /\ \A g \in SceneGenes, name \in NameDialog, alpha \in AlphaDialog,
              logic \in LogicDialog, deg \in DegDialog :
              ( /\ logic.ok /\ logic.text \notin {"and", "or"}
                /\ NodeItem_mouseDoubleClickEvent(g, name, alpha, logic, deg) ) =>
                  nodes'[g].node_data = nodes[g].node_data
        /\ \A e \in SceneEdges, type \in TypeDialog, kd \in KdDialog, n \in NDialog :
              ( /\ type.ok /\ type.value \notin {-1, 1}
                /\ EdgeItem_mouseDoubleClickEvent(e, type, kd, n) ) =>
                  edges'[e].edge_data = edges[e].edge_data ]_vars

\* The nodes of the scene drawn with the pin highlight
Highlighted == { n \in SceneNodes : nodes[n].pen = "cyan" }

\* The edges of the scene that have a target, each with its endpoints and
\* parameters
PersistentEdges ==
    [ e \in SceneEdges \ TransientEdges |-> SceneEdgeRecords[e] ]

\* C14: a step that turns edge mode off ends with no edge without target in
\* the scene, temp_edge, source_node and pinned_node unset, no node
\* highlighted, and the edges with a target as they were.
C14_CancelEndsIdle ==
    [][ (edge_mode /\ ~edge_mode') =>
            /\ TransientEdges' = {}
            /\ temp_edge' = None /\ source_node' = None /\ pinned_node' = None
            /\ Highlighted' = {}
            /\ PersistentEdges' = PersistentEdges ]_vars

\* C15: the highlighted nodes of the scene are the pinned node alone, or
\* none when nothing is pinned; the pinned node is not the source of the
\* draft; no node is highlighted when no draft is in progress; and a move
\* that keeps the pinned node keeps every node's pen, while a move that
\* changes it leaves the node pinned before with the plain pen and the node
\* pinned after with the highlight.
C15_HighlightIsPinnedNode ==
    /\ [] /\ Highlighted = (IF pinned_node = None THEN {} ELSE {pinned_node})
          /\ pinned_node # None => pinned_node # source_node
          /\ temp_edge = None => Highlighted = {}
    /\ [][ (\E pos \in PointerPoints : mouseMoveEvent(pos)) =>
              IF pinned_node' = pinned_node
              THEN \A n \in DOMAIN nodes : nodes'[n].pen = nodes[n].pen
              ELSE /\ pinned_node # None => nodes'[pinned_node].pen = "black"
                   /\ pinned_node' # None => nodes'[pinned_node'].pen = "cyan" ]_vars

\* The nodes node_inputs holds, the rows of the simulation table
Registered == { node_inputs[l] : l \in DOMAIN node_inputs }

\* C16: node_inputs holds exactly the input nodes of the scene.
C16_RegistryIsInputNodes ==
    Registered = { n \in SceneNodes : nodes[n].node_data.node_type = "input" }

====
